---- MODULE Spec2Model ----
(***************************************************************************)
(* RecoveryVisualizer (civitai-manager/managers/scripts/                   *)
(* recovery_visualizer.js): the Dataset / View pipeline of the recovery    *)
(* results page.  The state is the controller's fields (data,              *)
(* filteredData, currentSort, filters), the search box and the debounce    *)
(* timer; one action per event handler.                                    *)
(*                                                                         *)
(* A JavaScript string is a sequence of one-character strings, so that     *)
(* toLowerCase, includes, the size regex and the collation are computed.   *)
(* A record of the Dataset is an object: it is named by its index in       *)
(* Records, and data / filteredData hold these references.                 *)
(***************************************************************************)
EXTENDS Integers, Sequences, FiniteSets, TLC

----------------------------------------------------------------------------
(* Bounds of the model *)

\* longest results list the host pushes
MaxLen == 2
\* most timers that may be pending at once (1 is all the code ever has)
MaxTimers == 2
\* most input events of one burst (events with a timer still pending)
MaxBurst == 2

----------------------------------------------------------------------------
(* The state *)

VARIABLES
    constructed,    \* the page has loaded: visualizer is a RecoveryVisualizer
    recoveryData,   \* window.recoveryData
    data,           \* this.data: the Dataset
    filteredData,   \* this.filteredData: the View
    currentSort,    \* this.currentSort
    filters,        \* this.filters
    searchInput,    \* the value of the search box (#search-input)
    timeout,        \* debounce's timeout: the last timer handle, 0 before any
    timers,         \* the handles of the timers that are pending
    burst,          \* history: the values of the input events since no timer was pending
    last            \* history: the last handler that ran, its argument and what it
                    \* handed out (the notification shown, the file downloaded)

vars == <<constructed, recoveryData, data, filteredData, currentSort, filters,
          searchInput, timeout, timers, burst, last>>

----------------------------------------------------------------------------
(* Strings *)

UpperCaseLetters ==
    <<"A", "B", "C", "D", "E", "F", "G", "H", "I", "J", "K", "L", "M",
      "N", "O", "P", "Q", "R", "S", "T", "U", "V", "W", "X", "Y", "Z">>

LowerCaseLetters ==
    <<"a", "b", "c", "d", "e", "f", "g", "h", "i", "j", "k", "l", "m",
      "n", "o", "p", "q", "r", "s", "t", "u", "v", "w", "x", "y", "z">>

DigitChars == <<"0", "1", "2", "3", "4", "5", "6", "7", "8", "9">>

IndexOf(c, table) == CHOOSE i \in 1..Len(table) : table[i] = c

IsIn(c, table) == \E i \in 1..Len(table) : table[i] = c

\* String.prototype.toLowerCase
toLowerCase(s) ==
    [i \in 1..Len(s) |->
        IF IsIn(s[i], UpperCaseLetters)
        THEN LowerCaseLetters[IndexOf(s[i], UpperCaseLetters)]
        ELSE s[i]]

\* String.prototype.toUpperCase
toUpperCase(s) ==
    [i \in 1..Len(s) |->
        IF IsIn(s[i], LowerCaseLetters)
        THEN UpperCaseLetters[IndexOf(s[i], LowerCaseLetters)]
        ELSE s[i]]

\* String.prototype.includes
includes(hay, needle) ==
    \E i \in 0..(Len(hay) - Len(needle)) :
        SubSeq(hay, i + 1, i + Len(needle)) = needle

\* Array.prototype.join(' ') of four strings
JoinSpace(a, b, c, d) == a \o <<" ">> \o b \o <<" ">> \o c \o <<" ">> \o d

\* the length of the longest prefix of s made of characters of the set cs
PrefixLen(s, cs) ==
    CHOOSE k \in 0..Len(s) :
        /\ \A i \in 1..k : s[i] \in cs
        /\ (k = Len(s) \/ s[k + 1] \notin cs)

DigitSet == {DigitChars[i] : i \in 1..10}

RECURSIVE DecimalValue(_)
DecimalValue(ds) ==
    IF ds = <<>> THEN 0
    ELSE DecimalValue(SubSeq(ds, 1, Len(ds) - 1)) * 10
         + (IndexOf(ds[Len(ds)], DigitChars) - 1)

RECURSIVE Pow(_, _)
Pow(b, e) == IF e = 0 THEN 1 ELSE b * Pow(b, e - 1)

----------------------------------------------------------------------------
(* Byte counts.  A count is held as whole mebibytes and a remainder, so    *)
(* that sizes of several gigabytes stay exact: bytes = mb * 2^20 + rem.    *)
(* nan is JavaScript's NaN.                                                *)

MiB == 1024 * 1024

Bytes(mb, rem) == [nan |-> FALSE, mb |-> mb, rem |-> rem]

NaN == [nan |-> TRUE, mb |-> 0, rem |-> 0]

\* the size field of a record: a number (a byte count) or a string
NumberSize(mb, rem) == [type |-> "number", value |-> Bytes(mb, rem), text |-> <<>>]

StringSize(s) == [type |-> "string", value |-> NaN, text |-> s]

\* /^([\d.]+)\s*([KMGT]?B)?$/i : the number part and the unit of s
SizeRegexMatch(s) ==
    LET n    == PrefixLen(s, DigitSet \cup {"."})
        rest == SubSeq(s, n + 1, Len(s))
        w    == PrefixLen(rest, {" "})
        unit == toUpperCase(SubSeq(rest, w + 1, Len(rest)))
    IN  IF n > 0 /\ unit \in {<<>>, <<"B">>, <<"K", "B">>, <<"M", "B">>, <<"G", "B">>, <<"T", "B">>}
        THEN [matched |-> TRUE, number |-> SubSeq(s, 1, n), unit |-> unit]
        ELSE [matched |-> FALSE, number |-> <<>>, unit |-> <<>>]

\* parseFloat of a string of digits and dots: the longest prefix that is a
\* decimal literal, as numerator / 10^places; NaN when it has no digit
parseFloat(s) ==
    LET d1    == PrefixLen(s, DigitSet)
        dot   == d1 < Len(s) /\ s[d1 + 1] = "."
        after == IF dot THEN SubSeq(s, d1 + 2, Len(s)) ELSE <<>>
        d2    == PrefixLen(after, DigitSet)
    IN  IF d1 + d2 = 0
        THEN [nan |-> TRUE, numerator |-> 0, places |-> 0]
        ELSE [nan |-> FALSE,
              numerator |-> DecimalValue(SubSeq(s, 1, d1) \o SubSeq(after, 1, d2)),
              places |-> d2]

\* multipliers[unit] || 1, as the exponent e of 2^e
MultiplierExponent(unit) ==
    CASE unit = <<"K", "B">> -> 10
      [] unit = <<"M", "B">> -> 20
      [] unit = <<"G", "B">> -> 30
      [] unit = <<"T", "B">> -> 40
      [] OTHER -> 0

\* Math.round(value * 2^e) for value = numerator / 10^places: long division
\* of numerator * 2^e by 10^places in base 2^20, rounding half up
RoundScaled(numerator, places, e) ==
    LET scale == Pow(10, places)
        hi    == IF e >= 20 THEN numerator * Pow(2, e - 20)
                 ELSE (numerator * Pow(2, e)) \div MiB
        lo    == IF e >= 20 THEN 0 ELSE (numerator * Pow(2, e)) % MiB
        qhi   == hi \div scale
        cur   == (hi % scale) * MiB + lo
        qlo   == cur \div scale
        up    == IF 2 * (cur % scale) >= scale THEN 1 ELSE 0
    IN  Bytes(qhi + ((qlo + up) \div MiB), (qlo + up) % MiB)

parseFileSize(sizeStr) ==
    IF sizeStr.type = "number" THEN sizeStr.value
    ELSE LET match == SizeRegexMatch(sizeStr.text)
         IN  IF ~match.matched THEN Bytes(0, 0)
             ELSE LET value == parseFloat(match.number)
                      unit  == IF match.unit = <<>> THEN <<"B">> ELSE match.unit
                  IN  IF value.nan THEN NaN
                      ELSE RoundScaled(value.numerator, value.places,
                                       MultiplierExponent(unit))

\* String(bytes) of a non-negative integer: its decimal digits
RECURSIVE DecimalDigits(_, _)
DecimalDigits(hi, lo) ==
    LET cur == (hi % 10) * MiB + lo
        d   == <<DigitChars[(cur % 10) + 1]>>
    IN  IF hi = 0 /\ lo < 10 THEN d
        ELSE DecimalDigits(hi \div 10, cur \div 10) \o d

\* String(value) of what parseFileSize returns
NumberToString(b) == IF b.nan THEN <<"N", "a", "N">> ELSE DecimalDigits(b.mb, b.rem)

----------------------------------------------------------------------------
(* The records the host may push.  filepath is unique per record.          *)

Rec(filename, status, size, details, modelId) ==
    [filename |-> filename, filepath |-> <<"/", "m", "/">> \o filename,
     status |-> status, size |-> size, details |-> details,
     modelId |-> modelId, versionId |-> <<>>, modelName |-> <<>>]

\* a record with its optional fields
ModelRec(filename, status, size, details, modelId, versionId, modelName) ==
    [Rec(filename, status, size, details, modelId)
        EXCEPT !.versionId = versionId, !.modelName = modelName]

SizeRec(n, size) == Rec(<<"s">> \o <<DigitChars[(n \div 10) + 1], DigitChars[(n % 10) + 1]>>,
                        <<"S", "u", "c", "c", "e", "s", "s">>, size, <<>>, <<>>)

Records ==
    << Rec(<<"b", ".", "p", "t">>,    <<"S", "u", "c", "c", "e", "s", "s">>,       StringSize(<<"5", "0", " ", "M", "B">>), <<"o", "k">>, <<"1", "2">>),
       Rec(<<"a", "1", "0", ".", "p", "t">>,  <<"F", "a", "i", "l", "e", "d", ":", " ", "e", "r", "r", "o", "r">>, StringSize(<<"2", " ", "G", "B">>),  <<>>, <<>>),
       Rec(<<"a", "2", ".", "p", "t">>,   <<"s", "u", "c", "c", "e", "s", "s">>,       NumberSize(2048, 0),   <<"c", "o", "p", "y", " ", "o", "f", " ", "a", "1", "0">>, <<>>),
       Rec(<<"A", "2", ".", "p", "t">>,   <<"S", "k", "i", "p", "p", "e", "d">>,       StringSize(<<"1", ".", "5", " ", "K", "B">>), <<>>, <<>>),
       \* 5..12: one status of every kind, sizes in every bucket
       Rec(<<"m", "1", ".", "c", "k", "p", "t">>, <<"S", "u", "c", "c", "e", "s", "s", "f", "u", "l", "l", "y", " ", "r", "e", "c", "o", "v", "e", "r", "e", "d">>, StringSize(<<"9", "9", ".", "9", " ", "M", "B">>), <<"h", "a", "s", "h", " ", "o", "k">>, <<"7">>),
       Rec(<<"m", "2", ".", "c", "k", "p", "t">>, <<"C", "o", "m", "p", "l", "e", "t", "e", "d">>,              StringSize(<<"1", "0", "0", " ", "M", "B">>),  <<>>, <<>>),
       Rec(<<"m", "3", ".", "c", "k", "p", "t">>, <<"F", "a", "i", "l", "e", "d">>,                 StringSize(<<"1", " ", "G", "B">>),    <<>>, <<>>),
       Rec(<<"m", "4", ".", "c", "k", "p", "t">>, <<"E", "r", "r", "o", "r", ":", " ", "d", "u", "p", "l", "i", "c", "a", "t", "e", " ", "h", "a", "s", "h">>,  StringSize(<<"4", ".", "9", " ", "G", "B">>),  <<>>, <<>>),
       Rec(<<"m", "5", ".", "c", "k", "p", "t">>, <<"F", "i", "l", "e", " ", "a", "l", "r", "e", "a", "d", "y", " ", "e", "x", "i", "s", "t", "s">>,    StringSize(<<"5", " ", "G", "B">>),    <<>>, <<>>),
       Rec(<<"m", "6", ".", "c", "k", "p", "t">>, <<"S", "k", "i", "p", "p", "e", "d">>,                StringSize(<<"b", "o", "g", "u", "s">>),   <<>>, <<>>),
       Rec(<<"m", "7", ".", "c", "k", "p", "t">>, <<"D", "u", "p", "l", "i", "c", "a", "t", "e", "d">>,             NumberSize(0, 512),      <<>>, <<>>),
       Rec(<<"m", "8", ".", "c", "k", "p", "t">>, <<"g", "i", "b", "b", "e", "r", "i", "s", "h">>,              StringSize(<<"7", " ", "T", "B">>),    <<>>, <<>>),
       \* 13..: sizes around the bucket boundaries, and sizes that do not parse
       SizeRec(13, StringSize(<<"0">>)),
       SizeRec(14, StringSize(<<"1", "0", "2", "3">>)),
       SizeRec(15, StringSize(<<"1", " ", "K", "B">>)),
       SizeRec(16, StringSize(<<"1", ".", "5", "K", "B">>)),
       SizeRec(17, StringSize(<<"9", "9", " ", "M", "B">>)),
       SizeRec(18, StringSize(<<"9", "9", ".", "9", "9", " ", "M", "B">>)),
       SizeRec(19, StringSize(<<"1", "0", "0", " ", "M", "B">>)),
       SizeRec(20, StringSize(<<"1", "0", "0", ".", "5", " ", "m", "b">>)),
       SizeRec(21, StringSize(<<"1", "0", "2", "3", ".", "9", "9", " ", "M", "B">>)),
       SizeRec(22, StringSize(<<"1", "0", "2", "4", " ", "M", "B">>)),
       SizeRec(23, StringSize(<<"1", " ", "G", "B">>)),
       SizeRec(24, StringSize(<<"1", ".", "5", " ", "G", "B">>)),
       SizeRec(25, StringSize(<<"4", ".", "9", "9", " ", "G", "B">>)),
       SizeRec(26, StringSize(<<"5", " ", "G", "B">>)),
       SizeRec(27, StringSize(<<"5", "1", "2", "0", " ", "M", "B">>)),
       SizeRec(28, StringSize(<<"0", ".", "0", "0", "5", " ", "T", "B">>)),
       SizeRec(29, StringSize(<<"1", " ", "T", "B">>)),
       SizeRec(30, StringSize(<<"b", "o", "g", "u", "s">>)),
       SizeRec(31, StringSize(<<>>)),
       SizeRec(32, StringSize(<<"1", "2", " ", "X", "B">>)),
       SizeRec(33, StringSize(<<" ", "5", " ", "M", "B">>)),
       SizeRec(34, StringSize(<<"1", ".", "2", ".", "3", " ", "G", "B">>)),
       SizeRec(35, StringSize(<<".", "5", " ", "G", "B">>)),
       SizeRec(36, StringSize(<<"5", ".">>)),
       SizeRec(37, StringSize(<<".">>)),
       SizeRec(38, NumberSize(0, 0)),
       SizeRec(39, NumberSize(99, MiB - 1)),
       SizeRec(40, NumberSize(100, 0)),
       SizeRec(41, NumberSize(1023, MiB - 1)),
       SizeRec(42, NumberSize(1024, 0)),
       SizeRec(43, NumberSize(5119, MiB - 1)),
       SizeRec(44, NumberSize(5120, 0)),
       \* 45..50: statuses that hold a term of one table only, or of two categories
       Rec(<<"t", "1", ".", "p", "t">>, <<"F", "a", "i", "l", "u", "r", "e">>, StringSize(<<"1", " ", "M", "B">>), <<>>, <<>>),
       Rec(<<"t", "2", ".", "p", "t">>, <<"A", "l", "r", "e", "a", "d", "y", " ", "r", "e", "g", "i", "s", "t", "e", "r", "e", "d">>, StringSize(<<"1", " ", "M", "B">>), <<>>, <<>>),
       Rec(<<"t", "3", ".", "p", "t">>, <<"F", "A", "I", "L">>, StringSize(<<"1", " ", "M", "B">>), <<>>, <<>>),
       Rec(<<"t", "4", ".", "p", "t">>, <<"D", "u", "p", "l", "i", "c", "a", "t", "e">>, StringSize(<<"1", " ", "M", "B">>), <<>>, <<>>),
       Rec(<<"t", "5", ".", "p", "t">>, <<"S", "k", "i", "p", "p", "e", "d", ":", " ", "e", "r", "r", "o", "r">>, StringSize(<<"1", " ", "M", "B">>), <<>>, <<>>),
       Rec(<<"t", "6", ".", "p", "t">>, <<"C", "o", "m", "p", "l", "e", "t", "e", "d", ":", " ", "d", "u", "p", "l", "i", "c", "a", "t", "e", " ", "e", "x", "i", "s", "t", "s">>, StringSize(<<"1", " ", "M", "B">>), <<>>, <<>>),
       \* 51..52: records with every optional field, a quote in the details, and a
       \* size that is the number 0
       ModelRec(<<"q", ".", "p", "t">>, <<"S", "u", "c", "c", "e", "s", "s">>, StringSize(<<"2", ".", "0", " ", "G", "B">>), <<"a", " ", "\"", "b", "\"">>, <<"7">>, <<"9">>, <<"Q">>),
       ModelRec(<<"z", ".", "p", "t">>, <<"F", "a", "i", "l", "e", "d">>, NumberSize(0, 0), <<"e", "m", "p", "t", "y">>, <<>>, <<>>, <<"Z">>) >>

\* the records of the page's own runs, of the sort runs and of the size runs
MainIds == 1..2

SortIds == 1..4

SizeIds == 13..44

\* the records of the status runs and of the export runs
StatusIds == (5..12) \cup (45..50)

ExportIds == {1, 2, 51, 52}

\* the result lists of at most MaxLen records over ids
Datasets(ids) == UNION {[1..n -> ids] : n \in 0..MaxLen}

\* data-sort of the sortable table headers
Columns == {"filename", "filepath", "status", "size", "details"}

\* the options of the status and size selects
StatusOptions == {"all", "success", "failed", "skipped", "duplicate"}

SizeOptions == {"all", "small", "medium", "large", "xlarge"}

\* what the operator types into the search box
SearchInputs == {<<>>, <<"A", "1">>}

FilterSearchInputs == {<<>>, <<"M", "1">>, <<"h", "a", "s", "h">>}

----------------------------------------------------------------------------
(* applyFilters *)

\* a status table whose success terms lack 'completed'
statusMap_WithoutCompleted(status) ==
    CASE status = "success"   -> {<<"s", "u", "c", "c", "e", "s", "s">>, <<"s", "u", "c", "c", "e", "s", "s", "f", "u", "l", "l", "y", " ", "r", "e", "c", "o", "v", "e", "r", "e", "d">>}
      [] status = "failed"    -> {<<"f", "a", "i", "l", "e", "d">>, <<"e", "r", "r", "o", "r">>, <<"f", "a", "i", "l">>}
      [] status = "skipped"   -> {<<"s", "k", "i", "p", "p", "e", "d">>, <<"a", "l", "r", "e", "a", "d", "y", " ", "r", "e", "g", "i", "s", "t", "e", "r", "e", "d">>, <<"e", "x", "i", "s", "t", "s">>}
      [] status = "duplicate" -> {<<"d", "u", "p", "l", "i", "c", "a", "t", "e">>, <<"d", "u", "p", "l", "i", "c", "a", "t", "e", "d">>}
      [] OTHER -> {}

statusMap(status) ==
    CASE status = "success"   -> {<<"s", "u", "c", "c", "e", "s", "s">>, <<"s", "u", "c", "c", "e", "s", "s", "f", "u", "l", "l", "y", " ", "r", "e", "c", "o", "v", "e", "r", "e", "d">>, <<"c", "o", "m", "p", "l", "e", "t", "e", "d">>}
      [] status = "failed"    -> {<<"f", "a", "i", "l", "e", "d">>, <<"e", "r", "r", "o", "r">>, <<"f", "a", "i", "l">>}
      [] status = "skipped"   -> {<<"s", "k", "i", "p", "p", "e", "d">>, <<"a", "l", "r", "e", "a", "d", "y", " ", "r", "e", "g", "i", "s", "t", "e", "r", "e", "d">>, <<"e", "x", "i", "s", "t", "s">>}
      [] status = "duplicate" -> {<<"d", "u", "p", "l", "i", "c", "a", "t", "e">>, <<"d", "u", "p", "l", "i", "c", "a", "t", "e", "d">>}
      [] OTHER -> {}

\* sizeBytes / (1024 * 1024) >= n and < n; every comparison with NaN is false
SizeMBAtLeast(b, n) == ~b.nan /\ b.mb >= n

SizeMBBelow(b, n) == ~b.nan /\ b.mb < n

\* [item.filename, item.filepath, item.details, item.status].join(' ')
\* .toLowerCase(), item.status.toLowerCase() and parseFileSize(item.size) of
\* every record
SearchableText ==
    [id \in DOMAIN Records |->
        toLowerCase(JoinSpace(Records[id].filename, Records[id].filepath,
                              Records[id].details, Records[id].status))]

ItemStatus == [id \in DOMAIN Records |-> toLowerCase(Records[id].status)]

SizeBytes == [id \in DOMAIN Records |-> parseFileSize(Records[id].size)]

\* the search part of the filter callback: TRUE when the item is kept
SearchPasses(id, f) ==
    IF f.search # <<>>
    THEN includes(SearchableText[id], f.search)
    ELSE TRUE

\* the status part of the filter callback
StatusPasses(id, f) ==
    IF f.status # "all"
    THEN \E term \in statusMap(f.status) : includes(ItemStatus[id], term)
    ELSE TRUE

\* the size part of the filter callback; sizeGB = sizeMB / 1024
SizePasses(id, f) ==
    LET sizeBytes == SizeBytes[id]
    IN  CASE f.size = "small"  -> ~SizeMBAtLeast(sizeBytes, 100)
          [] f.size = "medium" -> ~(SizeMBBelow(sizeBytes, 100)
                                    \/ SizeMBAtLeast(sizeBytes, 1024))
          [] f.size = "large"  -> ~(SizeMBBelow(sizeBytes, 1024)
                                    \/ SizeMBAtLeast(sizeBytes, 5 * 1024))
          [] f.size = "xlarge" -> ~SizeMBBelow(sizeBytes, 5 * 1024)
          [] OTHER -> TRUE

\* the callback of this.data.filter
FilterCallback(id, f) ==
    /\ SearchPasses(id, f)
    /\ StatusPasses(id, f)
    /\ SizePasses(id, f)

\* applyFilters that filters the View it has, not the Dataset
ApplyFilters_OfView(d, f) ==
    LET keep(id) == FilterCallback(id, f) IN SelectSeq(filteredData, keep)

\* this.filteredData = this.data.filter(...)
ApplyFilters(d, f) ==
    LET keep(id) == FilterCallback(id, f) IN SelectSeq(d, keep)

----------------------------------------------------------------------------
(* sortTable *)

\* the characters of the keys, in collation order; digits come after them and
\* letters after the digits
PunctuationOrder == <<" ", "_", "-", ":", ".", "\"", "/">>

\* the collation elements of a lower-cased string under { numeric: true }:
\* a run of digits is ordered by its value, that is by the number of its
\* digits after the leading zeros and then by these digits
RECURSIVE CollationKey(_)
CollationKey(s) ==
    IF s = <<>> THEN <<>>
    ELSE IF s[1] \in DigitSet
    THEN LET d     == PrefixLen(s, DigitSet)
             zeros == PrefixLen(SubSeq(s, 1, d), {"0"})
         IN  <<1000 + (d - zeros)>>
             \o [i \in 1..(d - zeros) |-> 1000 + IndexOf(s[zeros + i], DigitChars)]
             \o CollationKey(SubSeq(s, d + 1, Len(s)))
    ELSE IF IsIn(s[1], LowerCaseLetters)
    THEN <<1000000 + IndexOf(s[1], LowerCaseLetters)>> \o CollationKey(Tail(s))
    ELSE <<IndexOf(s[1], PunctuationOrder)>> \o CollationKey(Tail(s))

\* a.localeCompare(b, undefined, { numeric: true }) from the two keys
CompareKeys(ka, kb) ==
    LET n    == IF Len(ka) < Len(kb) THEN Len(ka) ELSE Len(kb)
        same == PrefixLen([i \in 1..n |-> IF ka[i] = kb[i] THEN "=" ELSE "#"], {"="})
    IN  IF same < n THEN (IF ka[same + 1] < kb[same + 1] THEN -1 ELSE 1)
        ELSE IF Len(ka) < Len(kb) THEN -1
        ELSE IF Len(ka) > Len(kb) THEN 1
        ELSE 0

\* aVal of the comparator: String(a[column]).toLowerCase(), sizes parsed first
SortValue(id, column) ==
    IF column = "size"
    THEN toLowerCase(NumberToString(SizeBytes[id]))
    ELSE toLowerCase(Records[id][column])

\* the collation key of every record on every column
KeyTable == [c \in Columns |-> [id \in DOMAIN Records |-> CollationKey(SortValue(id, c))]]

localeCompare(a, b, column) == CompareKeys(KeyTable[column][a], KeyTable[column][b])

\* a comparator that has no descending branch
Comparator_IgnoresDirection(a, b, sort) == localeCompare(a, b, sort.column)

\* the comparator handed to Array.prototype.sort
Comparator(a, b, sort) ==
    IF sort.direction = "asc"
    THEN localeCompare(a, b, sort.column)
    ELSE localeCompare(b, a, sort.column)

\* a sort that puts x before the elements of equal key: not stable
Insert_BeforeEqual(s, x, sort) ==
    LET k == Cardinality({i \in 1..Len(s) : Comparator(s[i], x, sort) < 0})
    IN  SubSeq(s, 1, k) \o <<x>> \o SubSeq(s, k + 1, Len(s))

\* x put into the sorted list s after every element that is not greater
Insert(s, x, sort) ==
    LET k == Cardinality({i \in 1..Len(s) : Comparator(s[i], x, sort) <= 0})
    IN  SubSeq(s, 1, k) \o <<x>> \o SubSeq(s, k + 1, Len(s))

\* Array.prototype.sort with the comparator: a stable sort
RECURSIVE ArraySort(_, _)
ArraySort(s, sort) ==
    IF s = <<>> THEN <<>>
    ELSE Insert(ArraySort(SubSeq(s, 1, Len(s) - 1), sort), s[Len(s)], sort)

\* a toggle that keeps the direction when the column changes
ToggleSort_KeepsDirection(currentSortNow, column) ==
    IF currentSortNow.column = column
    THEN [column |-> column,
          direction |-> IF currentSortNow.direction = "asc" THEN "desc" ELSE "asc"]
    ELSE [column |-> column, direction |-> currentSortNow.direction]

\* lines 199-204: the sort state after a click on column
ToggleSort(currentSortNow, column) ==
    IF currentSortNow.column = column
    THEN [column |-> column,
          direction |-> IF currentSortNow.direction = "asc" THEN "desc" ELSE "asc"]
    ELSE [column |-> column, direction |-> "asc"]

----------------------------------------------------------------------------
(* renderTable: the status badge of a row *)

\* createStatusBadge(status): the class added to 'status-badge', "unknown" when
\* the badge keeps the question mark and no class is added
createStatusBadge(status) ==
    LET statusLower == toLowerCase(status)
    IN  IF includes(statusLower, <<"s", "u", "c", "c", "e", "s", "s">>) \/ includes(statusLower, <<"c", "o", "m", "p", "l", "e", "t", "e", "d">>)
        THEN "success"
        ELSE IF includes(statusLower, <<"f", "a", "i", "l", "e", "d">>) \/ includes(statusLower, <<"e", "r", "r", "o", "r">>)
        THEN "failed"
        ELSE IF includes(statusLower, <<"s", "k", "i", "p", "p", "e", "d">>) \/ includes(statusLower, <<"e", "x", "i", "s", "t", "s">>)
        THEN "skipped"
        ELSE IF includes(statusLower, <<"d", "u", "p", "l", "i", "c", "a", "t", "e">>)
        THEN "duplicate"
        ELSE "unknown"

\* createStatusBadge(item.status) of every record
StatusBadge == [id \in DOMAIN Records |-> createStatusBadge(Records[id].status)]

\* renderTable: the badges of the rows of the table, one row per View record
RenderedBadges(view) == [i \in 1..Len(view) |-> StatusBadge[view[i]]]

----------------------------------------------------------------------------
(* The handlers' data *)

\* window.recoveryData unset, and an object pushed by the host
NoData == [present |-> FALSE, hasResults |-> FALSE, results |-> <<>>]

Pushed(results) == [present |-> TRUE, hasResults |-> TRUE, results |-> results]

PushedWithoutResults == [present |-> TRUE, hasResults |-> FALSE, results |-> <<>>]

\* data.results || []
ResultsOf(d) == IF d.hasResults THEN d.results ELSE <<>>

Ran(op, arg) ==
    [op |-> op, arg |-> arg, notification |-> "none", file |-> "none", content |-> <<>>]

\* lines 8-16: the fields as the constructor sets them
DefaultSort == [column |-> "null", direction |-> "asc"]

DefaultFilters == [search |-> <<>>, status |-> "all", size |-> "all"]

Init ==
    /\ constructed = FALSE
    /\ recoveryData = NoData
    /\ data = <<>>
    /\ filteredData = <<>>
    /\ currentSort = DefaultSort
    /\ filters = DefaultFilters
    /\ searchInput = <<>>
    /\ timeout = 0
    /\ timers = {}
    /\ burst = <<>>
    /\ last = Ran("none", "")

----------------------------------------------------------------------------
(* The handlers *)

\* loadData, as the constructor calls it: the fields are at their defaults
loadData ==
    IF recoveryData.present
    THEN /\ data' = ResultsOf(recoveryData)
         /\ filteredData' = ApplyFilters(ResultsOf(recoveryData), DefaultFilters)
    ELSE /\ data' = <<>>
         /\ filteredData' = <<>>

\* DOMContentLoaded: new RecoveryVisualizer()
DOMContentLoaded ==
    /\ ~constructed
    /\ constructed' = TRUE
    /\ currentSort' = DefaultSort
    /\ filters' = DefaultFilters
    /\ loadData
    /\ last' = Ran("constructor", "")
    /\ UNCHANGED <<recoveryData, searchInput, timeout, timers, burst>>

\* a setRecoveryData that replaces the Dataset and does not filter again
setRecoveryData_NoRefilter(d) ==
    /\ recoveryData' = d
    /\ IF constructed
       THEN /\ data' = ResultsOf(d)
            /\ UNCHANGED filteredData
       ELSE UNCHANGED <<data, filteredData>>
    /\ last' = Ran("setRecoveryData", "")
    /\ UNCHANGED <<constructed, currentSort, filters, searchInput, timeout, timers, burst>>

\* window.setRecoveryData(d)
setRecoveryData(d) ==
    /\ recoveryData' = d
    /\ IF constructed
       THEN /\ data' = ResultsOf(d)
            /\ filteredData' = ApplyFilters(ResultsOf(d), filters)
       ELSE UNCHANGED <<data, filteredData>>
    /\ last' = Ran("setRecoveryData", "")
    /\ UNCHANGED <<constructed, currentSort, filters, searchInput, timeout, timers, burst>>

\* clearTimeout(timeout)
clearTimeout(pending, handle) == pending \ {handle}

\* setTimeout: a handle that no pending timer has
setTimeout(pending) == CHOOSE h \in 1..(Cardinality(pending) + 1) : h \notin pending

\* a debounce that does not clear the pending timer before it sets the next
Reschedule_NoClear(pending, handle) == pending \cup {setTimeout(pending)}

\* executedFunction of debounce, lines 554-561: the timers left pending
Reschedule(pending, handle) ==
    LET cleared == clearTimeout(pending, handle)
    IN  cleared \cup {setTimeout(cleared)}

\* an input event of the search box, the operator having typed v: the
\* debounced handler only restarts the timer
SearchInput(v) ==
    /\ constructed
    /\ Len(burst) < MaxBurst \/ timers = {}
    /\ Cardinality(Reschedule(timers, timeout)) <= MaxTimers
    /\ searchInput' = v
    /\ timers' = Reschedule(timers, timeout)
    /\ timeout' = CHOOSE h \in Reschedule(timers, timeout) :
                      h \notin clearTimeout(timers, timeout)
    /\ burst' = IF timers = {} THEN <<v>> ELSE Append(burst, v)
    /\ last' = Ran("input", "")
    /\ UNCHANGED <<constructed, recoveryData, data, filteredData, currentSort, filters>>

\* a callback that uses the value the box had at the last input event
DebouncedSearchTerm_AtEvent == toLowerCase(burst[Len(burst)])

\* the search term the debounced callback stores: e.target.value.toLowerCase()
\* of the search box as it is when the timer fires
DebouncedSearchTerm == toLowerCase(searchInput)

\* a pending timer fires: later() of debounce, then the callback of lines 32-35
DebounceFire(h) ==
    /\ h \in timers
    /\ timers' = clearTimeout(timers \ {h}, timeout)
    /\ filters' = [filters EXCEPT !.search = DebouncedSearchTerm]
    /\ filteredData' = ApplyFilters(data, filters')
    /\ last' = Ran("search", "")
    /\ UNCHANGED <<constructed, recoveryData, data, currentSort, searchInput, timeout, burst>>

\* the event loop runs a timer that is pending
TimerFires == \E h \in timers : DebounceFire(h)

\* click on #clear-search
ClearSearch ==
    /\ constructed
    /\ searchInput' = <<>>
    /\ filters' = [filters EXCEPT !.search = <<>>]
    /\ filteredData' = ApplyFilters(data, filters')
    /\ last' = Ran("clearSearch", "")
    /\ UNCHANGED <<constructed, recoveryData, data, currentSort, timeout, timers, burst>>

\* change of #status-filter
StatusFilterChange(v) ==
    /\ constructed
    /\ filters' = [filters EXCEPT !.status = v]
    /\ filteredData' = ApplyFilters(data, filters')
    /\ last' = Ran("statusFilter", "")
    /\ UNCHANGED <<constructed, recoveryData, data, currentSort, searchInput, timeout, timers, burst>>

\* change of #size-filter
SizeFilterChange(v) ==
    /\ constructed
    /\ filters' = [filters EXCEPT !.size = v]
    /\ filteredData' = ApplyFilters(data, filters')
    /\ last' = Ran("sizeFilter", "")
    /\ UNCHANGED <<constructed, recoveryData, data, currentSort, searchInput, timeout, timers, burst>>

\* click on a sortable header: sortTable(column)
sortTable(column) ==
    /\ constructed
    /\ currentSort' = ToggleSort(currentSort, column)
    /\ filteredData' = ArraySort(filteredData, currentSort')
    /\ last' = Ran("sortTable", column)
    /\ UNCHANGED <<constructed, recoveryData, data, filters, searchInput, timeout, timers, burst>>

\* a JavaScript value of a projected row: a string, a number, or undefined for
\* a key the row does not have
JsString(s) == [type |-> "string", value |-> NaN, text |-> s]

Undefined == [type |-> "undefined", value |-> NaN, text |-> <<>>]

\* the value is falsy: undefined, the empty string, 0 or NaN
Falsy(v) ==
    CASE v.type = "string" -> v.text = <<>>
      [] v.type = "number" -> v.value.nan \/ (v.value.mb = 0 /\ v.value.rem = 0)
      [] OTHER -> TRUE

\* String(v) of a string or a number
String(v) == IF v.type = "number" THEN NumberToString(v.value) ELSE v.text

\* the keys of the object literal of lines 426-435, in the order they are
\* written: the optional ones only when the item's value is truthy
OptionalKeys == <<"modelId", "versionId", "modelName">>

ObjectKeys(id) ==
    <<"filename", "filepath", "status", "size", "details">>
        \o SelectSeq(OptionalKeys, LAMBDA k : ~Falsy(JsString(Records[id][k])))

\* row[header] of the projection of the record
RowValue(id, header) ==
    IF \E k \in 1..Len(ObjectKeys(id)) : ObjectKeys(id)[k] = header
    THEN (IF header = "size" THEN Records[id].size ELSE JsString(Records[id][header]))
    ELSE Undefined

\* the name of a key as a string of characters
KeyText(key) ==
    CASE key = "filename"  -> <<"f", "i", "l", "e", "n", "a", "m", "e">>
      [] key = "filepath"  -> <<"f", "i", "l", "e", "p", "a", "t", "h">>
      [] key = "status"    -> <<"s", "t", "a", "t", "u", "s">>
      [] key = "size"      -> <<"s", "i", "z", "e">>
      [] key = "details"   -> <<"d", "e", "t", "a", "i", "l", "s">>
      [] key = "modelId"   -> <<"m", "o", "d", "e", "l", "I", "d">>
      [] key = "versionId" -> <<"v", "e", "r", "s", "i", "o", "n", "I", "d">>
      [] key = "modelName" -> <<"m", "o", "d", "e", "l", "N", "a", "m", "e">>

\* Array.prototype.join(sep) of an array of strings
RECURSIVE Join(_, _)
Join(strings, sep) ==
    IF strings = <<>> THEN <<>>
    ELSE IF Len(strings) = 1 THEN strings[1]
    ELSE strings[1] \o sep \o Join(Tail(strings), sep)

\* s.replace(/"/g, '""')
RECURSIVE DoubleQuotes(_)
DoubleQuotes(s) ==
    IF s = <<>> THEN <<>>
    ELSE (IF s[1] = "\"" THEN <<"\"", "\"">> ELSE <<s[1]>>) \o DoubleQuotes(Tail(s))

\* `"${String(row[header] || '').replace(/"/g, '""')}"`
CsvField(v) ==
    <<"\"">> \o DoubleQuotes(String(IF Falsy(v) THEN JsString(<<>>) ELSE v)) \o <<"\"">>

\* the field of every record under every key
CsvFieldTable ==
    [id \in DOMAIN Records |->
        [header \in {"filename", "filepath", "status", "size", "details",
                     "modelId", "versionId", "modelName"} |->
            CsvField(RowValue(id, header))]]

HeaderTable == [id \in DOMAIN Records |-> ObjectKeys(id)]

\* csvContent of exportCSV, lines 450-458, for the projections of rows
csvContent(rows) ==
    LET headers == HeaderTable[rows[1]]
    IN  Join(<<Join([k \in 1..Len(headers) |-> KeyText(headers[k])], <<",">>)>>
             \o [i \in 1..Len(rows) |->
                    Join([k \in 1..Len(headers) |-> CsvFieldTable[rows[i]][headers[k]]],
                         <<",">>)],
             <<"\n">>)

\* exportCSV(data): what it hands out for the projected rows
exportCSV(rows) ==
    IF Len(rows) = 0
    THEN [notification |-> "warning", file |-> "none", content |-> <<>>]
    ELSE [notification |-> "success", file |-> "recovery-results.csv",
          content |-> csvContent(rows)]

\* exportJSON(data); the JSON text, which holds the time of the export, is not
\* part of the state
exportJSON(rows) ==
    [notification |-> "success", file |-> "recovery-results.json", content |-> <<>>]

\* click on #export-csv or #export-json: exportData(format); the rows are the
\* projections of the View's records, held by the records' ids
exportData(format) ==
    /\ constructed
    /\ LET out == IF format = "csv" THEN exportCSV(filteredData) ELSE exportJSON(filteredData)
       IN  last' = [op |-> "exportData", arg |-> format,
                    notification |-> out.notification, file |-> out.file,
                    content |-> out.content]
    /\ UNCHANGED <<constructed, recoveryData, data, filteredData, currentSort, filters,
                   searchInput, timeout, timers, burst>>

\* an openFileLocation whose failure empties the View
openFileLocation_FailureEmptiesView(copied) ==
    /\ constructed
    /\ filteredData # <<>>
    /\ filteredData' = IF copied THEN filteredData ELSE <<>>
    /\ last' = [op |-> "openFileLocation", arg |-> "",
                notification |-> IF copied THEN "info" ELSE "error", file |-> "none",
                content |-> <<>>]
    /\ UNCHANGED <<constructed, recoveryData, data, currentSort, filters,
                   searchInput, timeout, timers, burst>>

\* click on an Open Location button of a row: openFileLocation(filepath), the
\* clipboard write succeeding or failing
openFileLocation(copied) ==
    /\ constructed
    /\ filteredData # <<>>
    /\ last' = [op |-> "openFileLocation", arg |-> "",
                notification |-> IF copied THEN "info" ELSE "error", file |-> "none",
                content |-> <<>>]
    /\ UNCHANGED <<constructed, recoveryData, data, filteredData, currentSort, filters,
                   searchInput, timeout, timers, burst>>

----------------------------------------------------------------------------
(* The page: the host pushes result lists over MainIds, the operator uses   *)
(* every control.                                                          *)

Next ==
    \/ DOMContentLoaded
    \/ \E r \in Datasets(MainIds) : setRecoveryData(Pushed(r))
    \/ setRecoveryData(PushedWithoutResults)
    \/ \E v \in SearchInputs : SearchInput(v)
    \/ TimerFires
    \/ ClearSearch
    \/ \E v \in {"all", "failed"} : StatusFilterChange(v)
    \/ \E v \in {"all", "large"} : SizeFilterChange(v)
    \/ \E c \in {"filename", "size"} : sortTable(c)
    \/ \E format \in {"csv", "json"} : exportData(format)
    \/ \E copied \in BOOLEAN : openFileLocation(copied)

Spec == Init /\ [][Next]_vars

----------------------------------------------------------------------------
(* Runs on a page that was loaded with embedded data: the state after      *)
(* new RecoveryVisualizer() has run loadData on window.recoveryData.       *)

Loaded(results) ==
    /\ constructed = TRUE
    /\ recoveryData = Pushed(results)
    /\ data = results
    /\ filteredData = ApplyFilters(results, DefaultFilters)
    /\ currentSort = DefaultSort
    /\ filters = DefaultFilters
    /\ searchInput = <<>>
    /\ timeout = 0
    /\ timers = {}
    /\ burst = <<>>
    /\ last = Ran("constructor", "")

\* the search box alone: typing, the timer, the clear button
DebounceSearchInputs == {<<>>, <<"A", "1">>, <<"B", ".">>}

DebounceInit == \E r \in Datasets(MainIds) : Loaded(r)

DebounceNext ==
    \/ \E v \in DebounceSearchInputs : SearchInput(v)
    \/ TimerFires
    \/ ClearSearch

\* a timer that is pending fires: the event loop runs it once its 300 ms are over
DebounceSpec ==
    DebounceInit /\ [][DebounceNext]_vars /\ WF_vars(TimerFires)

\* the filter controls on two result lists that hold every kind of record,
\* one of them out of order, with a record twice and a size that is only a dot
FilterDatasets ==
    { <<5, 6, 7, 8, 9, 10, 11, 12>>, <<12, 8, 37, 5, 8, 9, 6, 11, 10, 7>> }

FilterInit == \E r \in FilterDatasets : Loaded(r)

FilterNext ==
    \/ \E v \in FilterSearchInputs : SearchInput(v)
    \/ TimerFires
    \/ ClearSearch
    \/ \E v \in StatusOptions : StatusFilterChange(v)
    \/ \E v \in SizeOptions : SizeFilterChange(v)

FilterSpec == FilterInit /\ [][FilterNext]_vars

\* the sortable headers on result lists with equal keys
SortInit == \E r \in Datasets(SortIds) : Loaded(r)

SortNext == \E c \in Columns : sortTable(c)

SortSpec == SortInit /\ [][SortNext]_vars

\* the size select on one record of every size
SizeInit == \E id \in SizeIds : Loaded(<<id>>)

SizeNext == \E v \in SizeOptions : SizeFilterChange(v)

SizeSpec == SizeInit /\ [][SizeNext]_vars

\* the status select on result lists of every kind of status
StatusInit == \E r \in Datasets(StatusIds) : Loaded(r)

StatusNext == \E v \in StatusOptions : StatusFilterChange(v)

StatusSpec == StatusInit /\ [][StatusNext]_vars

\* the export buttons on Views of records with and without the optional fields,
\* filtered and sorted
ExportInit == \E r \in Datasets(ExportIds) : Loaded(r)

ExportNext ==
    \/ \E format \in {"csv", "json"} : exportData(format)
    \/ \E v \in {"all", "failed"} : StatusFilterChange(v)
    \/ sortTable("filename")

ExportSpec == ExportInit /\ [][ExportNext]_vars

----------------------------------------------------------------------------
(* The claims *)

Count(s, x) == Cardinality({i \in 1..Len(s) : s[i] = x})

Reverse(s) == [i \in 1..Len(s) |-> s[Len(s) + 1 - i]]

\* the handlers that end in applyFilters
FilterOps == {"constructor", "setRecoveryData", "search", "clearSearch",
              "statusFilter", "sizeFilter"}

\* C1: the View is a permutation of a subset of the Dataset: no record is in
\* filteredData more often than it is in data
C1_ViewIsSubPermutation ==
    \A i \in 1..Len(filteredData) :
        Count(filteredData, filteredData[i]) <= Count(data, filteredData[i])

\* C1 happens: a sorted View that holds the records of a pushed Dataset in
\* another order
C1_Witness ==
    /\ last.op = "sortTable"
    /\ recoveryData.present
    /\ Len(filteredData) >= 2
    /\ filteredData # data

\* s is in the order of the comparator of sort
IsOrdered(s, sort) ==
    \A i \in 1..(Len(s) - 1) : Comparator(s[i], s[i + 1], sort) <= 0

\* C2: whenever a sort column is active the View is ordered by that column in
\* the active direction, after every handler
C2_ViewOrderedByActiveSort ==
    currentSort.column # "null" => IsOrdered(filteredData, currentSort)

C4_EmptyExportAborts ==
    (last.op = "exportData" /\ filteredData = <<>>) =>
        (last.notification = "warning" /\ last.file = "none")

\* the value of the last input event
LastTyped == burst[Len(burst)]

\* C5 as claimed: an input event runs no filter and leaves one timer pending; the
\* debounced invocation uses the value of the last input event
C5_DebounceUsesLastEvent ==
    [][/\ last'.op = "input" =>
            (filters' = filters /\ filteredData' = filteredData
             /\ Cardinality(timers') = 1)
       /\ last'.op = "search" =>
            (timers' = {} /\ filters'.search = toLowerCase(LastTyped))
      ]_vars

\* C5 amended: an input event runs no filter and leaves exactly one timer pending;
\* at most one timer is ever pending; a pending timer fires, once, and the
\* invocation filters with the value the search box holds then, which is the
\* value of the last input event, or empty after a click on clear-search
C5_Debounce ==
    /\ [](Cardinality(timers) <= 1)
    /\ [][/\ last'.op = "input" =>
              (filters' = filters /\ filteredData' = filteredData
               /\ Cardinality(timers') = 1)
         /\ last'.op = "search" =>
              (/\ timers' = {}
               /\ searchInput \in {LastTyped, <<>>}
               /\ filters'.search = toLowerCase(searchInput)
               /\ filteredData' = SelectSeq(data, LAMBDA id : FilterCallback(id, filters')))
        ]_vars
    /\ ((timers # {}) ~> (timers = {}))

\* C5 happens: a burst of two input events with different values, then the one
\* invocation, with the second value
C5_Witness ==
    /\ last.op = "search"
    /\ Len(burst) = 2
    /\ burst[1] # burst[2]
    /\ burst[1] # <<>>
    /\ filters.search = toLowerCase(burst[2])
    /\ filters.search # <<>>
    /\ timers = {}

\* no two records of s have equal sort keys on column c
DistinctKeys(s, c) ==
    \A i, j \in 1..Len(s) : i < j => localeCompare(s[i], s[j], c) # 0

Sorted(s, c, direction) == ArraySort(s, [column |-> c, direction |-> direction])

\* C6 as claimed: descending is the exact reverse of ascending, equal keys or not
C6_DescIsReverseOfAsc ==
    \A c \in Columns :
        Sorted(filteredData, c, "desc") = Reverse(Sorted(filteredData, c, "asc"))

\* C6 amended: descending is the exact reverse of ascending when no two records
\* have equal sort keys on the column
C6_DescIsReverseOfAscDistinctKeys ==
    \A c \in Columns :
        DistinctKeys(filteredData, c) =>
            Sorted(filteredData, c, "desc") = Reverse(Sorted(filteredData, c, "asc"))

\* C6 happens: a second click on the header has reversed a View of distinct keys
C6_Witness ==
    /\ last.op = "sortTable"
    /\ currentSort.direction = "desc"
    /\ Len(filteredData) >= 2
    /\ DistinctKeys(filteredData, currentSort.column)
    /\ filteredData = Reverse(Sorted(data, currentSort.column, "asc"))

\* the records of s whose key on column c equals the key of x, in their order
SameKey(s, x, c) == SelectSeq(s, LAMBDA y : localeCompare(x, y, c) = 0)

\* C7: sortTable keeps the relative order of the records with equal keys
C7_SortIsStable ==
    [][last'.op = "sortTable" =>
          \A i \in 1..Len(filteredData) :
              SameKey(filteredData', filteredData[i], last'.arg)
                  = SameKey(filteredData, filteredData[i], last'.arg)
      ]_vars

\* C7 happens: a descending sort of a View with two records of equal keys, the
\* greater id first
C7_Witness ==
    /\ last.op = "sortTable"
    /\ currentSort.direction = "desc"
    /\ \E i, j \in 1..Len(filteredData) :
          /\ i < j
          /\ filteredData[i] > filteredData[j]
          /\ localeCompare(filteredData[i], filteredData[j], currentSort.column) = 0

\* C8: sortTable(c) flips the direction when c is the active column and makes c
\* the active column, ascending, when it is not; no other handler changes
\* currentSort
C8_SortToggle ==
    [][/\ last'.op = "sortTable" =>
            /\ currentSort'.column = last'.arg
            /\ currentSort.column = last'.arg =>
                  currentSort'.direction =
                      (IF currentSort.direction = "asc" THEN "desc" ELSE "asc")
            /\ currentSort.column # last'.arg => currentSort'.direction = "asc"
       /\ last'.op # "sortTable" => currentSort' = currentSort
      ]_vars

\* C8 happens: a column was clicked twice, then another column once
C8_Witness ==
    /\ last.op = "sortTable"
    /\ currentSort = [column |-> "size", direction |-> "desc"]
    /\ filters.size # "all"

\* b < mb * 2^20 and b >= mb * 2^20 for a parsed byte count b
BelowMB(b, mb) == ~b.nan /\ b.mb < mb

AtLeastMB(b, mb) == ~b.nan /\ b.mb >= mb

\* the parsed size b lies in the bucket
InBucket(b, bucket) ==
    CASE bucket = "small"  -> BelowMB(b, 100)
      [] bucket = "medium" -> AtLeastMB(b, 100) /\ BelowMB(b, 1024)
      [] bucket = "large"  -> AtLeastMB(b, 1024) /\ BelowMB(b, 5 * 1024)
      [] bucket = "xlarge" -> AtLeastMB(b, 5 * 1024)

\* the record passes every active criterion
PassesCriteria(id, f) ==
    /\ \/ f.search = <<>>
       \/ includes(toLowerCase(Records[id].filename \o <<" ">> \o Records[id].filepath
                               \o <<" ">> \o Records[id].details \o <<" ">>
                               \o Records[id].status), f.search)
    /\ \/ f.status = "all"
       \/ \E term \in statusMap(f.status) : includes(toLowerCase(Records[id].status), term)
    /\ \/ f.size = "all"
       \/ InBucket(parseFileSize(Records[id].size), f.size)

\* C9: after applyFilters the View is the records of the Dataset that pass every
\* active criterion, in Dataset order
C9_ViewIsPassingRecords ==
    last.op \in FilterOps =>
        filteredData = SelectSeq(data, LAMBDA id : PassesCriteria(id, filters))

Buckets == {"small", "medium", "large", "xlarge"}

\* C10: the record passes a bucket filter exactly when its parsed size lies in the
\* bucket, and it passes exactly one of the four bucket filters
C10_SizeBuckets ==
    /\ (last.op = "sizeFilter" /\ filters.size # "all") =>
          \A i \in 1..Len(data) :
              (Count(filteredData, data[i]) > 0)
                  <=> InBucket(parseFileSize(Records[data[i]].size), filters.size)
    /\ \A i \in 1..Len(data) :
          Cardinality({k \in Buckets :
              FilterCallback(data[i], [DefaultFilters EXCEPT !.size = k])}) = 1

\* the categories in the order of precedence, and the terms of each as the
\* classification is specified
Categories == <<"success", "failed", "skipped", "duplicate">>

CategoryTerms(category) ==
    CASE category = "success"   -> {<<"s", "u", "c", "c", "e", "s", "s">>, <<"s", "u", "c", "c", "e", "s", "s", "f", "u", "l", "l", "y", " ", "r", "e", "c", "o", "v", "e", "r", "e", "d">>, <<"c", "o", "m", "p", "l", "e", "t", "e", "d">>}
      [] category = "failed"    -> {<<"f", "a", "i", "l", "e", "d">>, <<"e", "r", "r", "o", "r">>, <<"f", "a", "i", "l">>}
      [] category = "skipped"   -> {<<"s", "k", "i", "p", "p", "e", "d">>, <<"a", "l", "r", "e", "a", "d", "y", " ", "r", "e", "g", "i", "s", "t", "e", "r", "e", "d">>, <<"e", "x", "i", "s", "t", "s">>}
      [] category = "duplicate" -> {<<"d", "u", "p", "l", "i", "c", "a", "t", "e">>, <<"d", "u", "p", "l", "i", "c", "a", "t", "e", "d">>}

HasTermOf(status, category) ==
    \E term \in CategoryTerms(category) : includes(toLowerCase(status), term)

\* the first category with a term in the lower-cased status, or unknown
Classify(status) ==
    IF \E k \in 1..Len(Categories) : HasTermOf(status, Categories[k])
    THEN Categories[CHOOSE k \in 1..Len(Categories) :
                       /\ HasTermOf(status, Categories[k])
                       /\ \A j \in 1..(k - 1) : ~HasTermOf(status, Categories[j])]
    ELSE "unknown"

\* C11: the badge of every row of the table is the classification of the
\* record's status: the first category, in the order success, failed, skipped,
\* duplicate, with a term in the lower-cased status, unknown when there is none
C11_BadgeIsClassification ==
    \A i \in 1..Len(filteredData) :
        RenderedBadges(filteredData)[i] = Classify(Records[filteredData[i]].status)

\* C15: a record whose badge is X passes the status filter X: after the status
\* filter is set to X every record of the Dataset with badge X is in the View as
\* often as in the Dataset, and the filter callback keeps it
C15_BadgeImpliesFilter ==
    /\ \A i \in 1..Len(data) :
          \A k \in 1..Len(Categories) :
              createStatusBadge(Records[data[i]].status) = Categories[k] =>
                  FilterCallback(data[i], [DefaultFilters EXCEPT !.status = Categories[k]])
    /\ (last.op = "statusFilter" /\ filters.status # "all") =>
          \A i \in 1..Len(data) :
              createStatusBadge(Records[data[i]].status) = filters.status =>
                  Count(filteredData, data[i]) = Count(data, data[i])

\* C15 happens: the status filter is set to a category, the View shows a record
\* of that badge and the filter has hidden a record of another badge
C15_Witness ==
    /\ last.op = "statusFilter"
    /\ filters.status # "all"
    /\ \E i \in 1..Len(filteredData) :
          RenderedBadges(filteredData)[i] = filters.status
    /\ \E i \in 1..Len(data) :
          /\ StatusBadge[data[i]] # filters.status
          /\ Count(filteredData, data[i]) = 0

\* the record has the key: the five fields always, an optional field when the
\* record's value for it is truthy
HasKey(id, key) ==
    \/ key \in {"filename", "filepath", "status", "size", "details"}
    \/ Records[id][key] # <<>>

\* the string form of the record's value for the key
StringForm(id, key) ==
    IF key = "size"
    THEN (IF Records[id].size.type = "number"
          THEN NumberToString(Records[id].size.value)
          ELSE Records[id].size.text)
    ELSE Records[id][key]

Quoted(s) == <<"\"">> \o DoubleQuotes(s) \o <<"\"">>

\* the lines of a text: the text split at the line breaks
RECURSIVE Lines(_)
Lines(text) ==
    LET n == PrefixLen(text, {c \in {text[i] : i \in 1..Len(text)} : c # "\n"})
    IN  IF n = Len(text) THEN <<text>>
        ELSE <<SubSeq(text, 1, n)>> \o Lines(SubSeq(text, n + 2, Len(text)))

\* C12: the CSV of a non-empty View has the keys of the first record as its
\* header row and then one row per View record in View order; a row has one
\* quoted field per header key, in header order: the string form of the
\* record's value with the quotes doubled when the record has the key, the empty
\* string when it lacks it
C12_CsvFormat ==
    (last.op = "exportData" /\ last.arg = "csv" /\ filteredData # <<>>) =>
        LET keys == SelectSeq(<<"filename", "filepath", "status", "size", "details",
                                "modelId", "versionId", "modelName">>,
                              LAMBDA k : HasKey(filteredData[1], k))
            rows == Lines(last.content)
        IN  /\ last.file = "recovery-results.csv"
            /\ Len(rows) = 1 + Len(filteredData)
            /\ rows[1] = Join([k \in 1..Len(keys) |-> KeyText(keys[k])], <<",">>)
            /\ \A i \in 1..Len(filteredData) :
                  rows[i + 1] =
                      Join([k \in 1..Len(keys) |->
                               IF HasKey(filteredData[i], keys[k])
                               THEN Quoted(StringForm(filteredData[i], keys[k]))
                               ELSE Quoted(<<>>)],
                           <<",">>)

\* C13: an export, CSV or JSON, of an empty View or not, and openFileLocation,
\* the clipboard write succeeding or failing, leave the Dataset, the View and its
\* order, the filter criteria and the sort column and direction as they were
C13_ExportAndOpenKeepState ==
    [][last'.op \in {"exportData", "openFileLocation"} =>
          /\ data' = data
          /\ filteredData' = filteredData
          /\ filters' = filters
          /\ currentSort' = currentSort
      ]_vars

\* C13 happens: the clipboard write of openFileLocation has failed on a View
\* that is filtered and sorted
C13_Witness ==
    /\ last.op = "openFileLocation"
    /\ last.notification = "error"
    /\ filters # DefaultFilters
    /\ currentSort.column # "null"
    /\ filteredData # data

\* the search box and the search criterion are empty
SearchCleared == searchInput = <<>> /\ filters.search = <<>>

\* the View holds the records of the Dataset that pass the status and size
\* filters, each as often as the Dataset
ViewOfEmptySearch(view, dataset, f) ==
    LET passing == SelectSeq(dataset, LAMBDA id :
                       FilterCallback(id, [f EXCEPT !.search = <<>>]))
    IN  /\ Len(view) = Len(passing)
        /\ \A i \in 1..Len(passing) : Count(view, passing[i]) = Count(passing, passing[i])

\* C14: a click on clear-search empties the search criterion, and as long as no
\* input event follows every handler, the debounced invocation of an earlier
\* keystroke among them, leaves it empty and the View computed with an empty
\* search
C14_ClearSearchStays ==
    [][/\ last'.op = "clearSearch" =>
            (SearchCleared' /\ ViewOfEmptySearch(filteredData', data', filters'))
       /\ (SearchCleared /\ last'.op # "input") =>
            (SearchCleared' /\ ViewOfEmptySearch(filteredData', data', filters'))
      ]_vars

\* C14 happens: the timer of a keystroke has fired after the click on
\* clear-search, and the View holds a record that the typed term does not match
C14_Witness ==
    /\ last.op = "search"
    /\ burst # <<>>
    /\ burst[Len(burst)] # <<>>
    /\ SearchCleared
    /\ \E i \in 1..Len(filteredData) :
          ~includes(SearchableText[filteredData[i]], toLowerCase(burst[Len(burst)]))

====
